---- MODULE Spec2Model ----
(***************************************************************************)
(* Sharded visit-counter service: consistent-hash ring, Redis shard        *)
(* manager with health map and retry, coalescing write buffer with its     *)
(* periodic flusher, read cache, and the counter service on top of them.   *)
(*                                                                         *)
(* Scheduling is asyncio's: a coroutine runs without interruption until it *)
(* reaches asyncio.sleep.  The redis client is the synchronous one, so a   *)
(* shard call does not suspend; the only suspension points of the counting *)
(* core are the interval sleeps of the background loops and the retry      *)
(* backoff sleeps inside RedisManager.increment / RedisManager.get.        *)
(***************************************************************************)
EXTENDS Integers, Sequences, FiniteSets, TLC

(***************************************************************************)
(* Bounds of the model.                                                    *)
(***************************************************************************)
\* increment_visit calls accepted in a run, over all pages
MaxInc == 2
\* _get_hash yields a value in 0 .. HashSpace-1 (MD5 has 2^128 values)
HashSpace == 5
\* the clock runs from 0 to MaxNow
MaxNow == 2

(***************************************************************************)
(* Settings (src/app/core/config.py).  Every field can be overridden from  *)
(* the environment; the model runs a small configuration.                  *)
(***************************************************************************)
VIRTUAL_NODES == 2
REDIS_RETRY_ATTEMPTS == 2
CACHE_TTL_SECONDS == 1
CACHE_CAPACITY == 1

\* Settings.get_redis_nodes_list(): the shard URLs, in configuration order
redis_nodes == <<"redis1", "redis2">>

\* page ids the callers use
Pages == {"a", "b"}

NodeSet == {redis_nodes[i] : i \in DOMAIN redis_nodes}

VARIABLES
    hashSeed,         \* what determines the hash function (see _get_hash)
    hash_ring,        \* ConsistentHash.hash_ring: hash -> node
    sorted_keys,      \* ConsistentHash.sorted_keys
    nodes,            \* ConsistentHash.nodes
    node_health,      \* RedisManager.node_health
    up,               \* environment: the shard answers calls
    store,            \* environment: the values held by each shard
    cache,            \* VisitCounterService.cache
    write_buffer,     \* VisitCounterService.write_buffer (a dict, in insertion order)
    last_write_time,  \* VisitCounterService.last_write_time
    metrics,          \* VisitCounterService.metrics
    now,              \* datetime.now()
    fl_pc,            \* position of _batch_write_loop
    buffer_to_write,  \* snapshot held by a suspended _flush_write_buffer
    fl_idx,           \* entry of the snapshot the suspended flush is at
    fl_attempt,       \* attempt the suspended RedisManager.increment resumes with
    last,             \* outcome of the latest public call; for an increment,
                      \* value is what a get of the page returned right before
                      \* it (-1 if the call before was not such a get)
    accepted,         \* history: increment_visit calls returned since the page's
                      \*          latest reset_counter call (or since the start)
    resetState,       \* history: "never" | "ok" | "failed", the latest reset call
    incCount,         \* history: increment_visit calls returned, over all pages
    fl_hist,          \* history of the latest flush that took a snapshot: the
                      \*          snapshot, the shard values and the accepted
                      \*          counts at that moment, and whether it has ended;
                      \*          and in ended the time at which the latest
                      \*          _flush_write_buffer call returned (the time of
                      \*          construction while none has)
    mgr               \* a direct call of RedisManager.increment / get: its
                      \* position, arguments and attempt, and as history the
                      \* shard calls it made (calls) and how many failed (fails)

vars == <<hashSeed, hash_ring, sorted_keys, nodes, node_health, up, store, cache,
          write_buffer, last_write_time, metrics, now, fl_pc, buffer_to_write,
          fl_idx, fl_attempt, last, accepted, resetState, incCount, mgr,
          fl_hist>>

ringVars == <<hashSeed, hash_ring, sorted_keys, nodes>>
flushVars == <<fl_pc, buffer_to_write, fl_idx, fl_attempt, fl_hist>>
histVars == <<accepted, resetState, incCount>>

(***************************************************************************)
(* Python dict with insertion order, as a sequence of <<key, value>>.      *)
(***************************************************************************)
DictKeys(d) == {d[i][1] : i \in DOMAIN d}
DictHas(d, k) == k \in DictKeys(d)
DictGet(d, k, default) ==
    IF DictHas(d, k) THEN (CHOOSE e \in {d[i] : i \in DOMAIN d} : e[1] = k)[2]
    ELSE default
\* d[k] = v, appending k when absent
DictSet(d, k, v) ==
    IF DictHas(d, k) THEN [i \in DOMAIN d |-> IF d[i][1] = k THEN <<k, v>> ELSE d[i]]
    ELSE Append(d, <<k, v>>)
DictDrop(e, k) == e[1] # k
\* d.pop(k, None)
DictPop(d, k) == SelectSeq(d, LAMBDA e : DictDrop(e, k))

(***************************************************************************)
(* Labels that get hashed, and the hash functions the model runs with.     *)
(* MD5 is one fixed function; the model runs with a function given by      *)
(* hashSeed: vnode gives the hash of every virtual-node label, other the   *)
(* hash of every storage key and fallback label, and each "_collision"     *)
(* suffix moves a label's hash by step.                                    *)
(***************************************************************************)
\* f"{node}_{i}"
VirtualNodeKey(node, i) == node \o "_" \o ToString(i)
\* f"{virtual_node_key}_collision"
CollisionKey(label) == label \o "_collision"
\* f"fallback_{node}"
FallbackKey(node) == "fallback_" \o node
\* f"visits:{page_id}"
CacheKey(page_id) == "visits:" \o page_id

RECURSIVE Suffixed(_, _)
Suffixed(label, d) == IF d = 0 THEN label ELSE CollisionKey(Suffixed(label, d - 1))

VLabels == {VirtualNodeKey(n, i) : n \in NodeSet, i \in 0 .. (VIRTUAL_NODES - 1)}
StorageKeys == {CacheKey(p) : p \in Pages}
FallbackLabels == {FallbackKey(n) : n \in NodeSet}
Labels == {Suffixed(l, d) : l \in VLabels, d \in 0 .. HashSpace}
              \cup StorageKeys \cup FallbackLabels

(***************************************************************************)
(* ConsistentHash (src/app/core/consistent_hash.py).  A ring is the record *)
(* of the object's three fields.                                           *)
(***************************************************************************)
\* a virtual-node label as its base label and its number of suffixes
LabelParts ==
    [l \in {Suffixed(b, d) : b \in VLabels, d \in 0 .. HashSpace} |->
        CHOOSE p \in VLabels \X (0 .. HashSpace) : Suffixed(p[1], p[2]) = l]

_get_hash(key) ==
    IF key \in DOMAIN hashSeed.other THEN hashSeed.other[key]
    ELSE LET ld == LabelParts[key]
         IN  (hashSeed.vnode[ld[1]] + ld[2] * hashSeed.step) % HashSpace

RECURSIVE SortedSeq(_)
\* sorted(...)
SortedSeq(S) ==
    IF S = {} THEN <<>>
    ELSE LET m == CHOOSE x \in S : \A y \in S : x <= y
         IN  <<m>> \o SortedSeq(S \ {m})

\* variant of bisect: bisect_left, the insertion point before any equal entries
bisectLeft(a, x) == Cardinality({i \in DOMAIN a : a[i] < x})

\* bisect.bisect (bisect_right): the insertion point after any equal entries
bisect(a, x) == Cardinality({i \in DOMAIN a : a[i] <= x})

EmptyRing == [hash_ring |-> <<>>, sorted_keys |-> <<>>, nodes |-> {}]

RECURSIVE ResolveCollision(_, _)
\* the while loop of add_node; a label outside Labels ends the search
ResolveCollision(ring, label) ==
    IF label \in Labels /\ _get_hash(label) \in DOMAIN ring
    THEN ResolveCollision(ring, CollisionKey(label))
    ELSE label

RECURSIVE AddVirtual(_, _, _)
\* the for loop of add_node, from virtual node i on
AddVirtual(ring, node, i) ==
    IF i = VIRTUAL_NODES THEN ring
    ELSE LET label == ResolveCollision(ring, VirtualNodeKey(node, i))
         IN  IF label \notin Labels THEN ring
             ELSE AddVirtual(ring @@ (_get_hash(label) :> node), node, i + 1)

RECURSIVE AddResolves(_, _, _)
\* every collision search of add_node(node) ends inside Labels
AddResolves(ring, node, i) ==
    IF i = VIRTUAL_NODES THEN TRUE
    ELSE LET label == ResolveCollision(ring, VirtualNodeKey(node, i))
         IN  IF label \notin Labels THEN FALSE
             ELSE AddResolves(ring @@ (_get_hash(label) :> node), node, i + 1)

add_node(r, node) ==
    IF node \in r.nodes THEN r
    ELSE LET ring == AddVirtual(r.hash_ring, node, 0)
         IN  [hash_ring |-> ring,
              sorted_keys |-> SortedSeq(DOMAIN ring),
              nodes |-> r.nodes \cup {node}]

\* remove_node past its membership test: the hashes of the node's labels
\* f"{node}_{i}" are popped from the ring, whatever they map to
remove_node(r, node) ==
    LET keys_to_remove == {_get_hash(VirtualNodeKey(node, i)) :
                               i \in 0 .. (VIRTUAL_NODES - 1)}
        ring == [h \in (DOMAIN r.hash_ring) \ keys_to_remove |-> r.hash_ring[h]]
    IN  [hash_ring |-> ring,
         sorted_keys |-> SortedSeq(DOMAIN ring),
         nodes |-> r.nodes \ {node}]

RECURSIVE BuildRing(_, _)
\* ConsistentHash.__init__: add_node for each node of the list, from the i-th on
BuildRing(r, i) ==
    IF i > Len(redis_nodes) THEN r
    ELSE BuildRing(add_node(r, redis_nodes[i]), i + 1)

RECURSIVE BuildResolves(_, _)
BuildResolves(r, i) ==
    IF i > Len(redis_nodes) THEN TRUE
    ELSE IF ~AddResolves(r.hash_ring, redis_nodes[i], 0) THEN FALSE
    ELSE BuildResolves(add_node(r, redis_nodes[i]), i + 1)

TheRing == [hash_ring |-> hash_ring, sorted_keys |-> sorted_keys, nodes |-> nodes]

\* get_node: [ok |-> FALSE] is the "Hash ring is empty" exception
get_node(r, key) ==
    IF DOMAIN r.hash_ring = {} THEN [ok |-> FALSE, node |-> ""]
    ELSE LET key_hash == _get_hash(key)
             found == bisect(r.sorted_keys, key_hash)
             idx == IF found = Len(r.sorted_keys) THEN 0 ELSE found
         IN  [ok |-> TRUE, node |-> r.hash_ring[r.sorted_keys[idx + 1]]]

(***************************************************************************)
(* Shard client (environment): the synchronous redis client of one node.   *)
(* A call to a node that is down raises redis.RedisError and changes       *)
(* nothing; a key that is absent reads as 0.                               *)
(***************************************************************************)
EmptyStore == [n \in NodeSet |-> [k \in StorageKeys |-> 0]]

\* every shard's value for the key, summed
RECURSIVE SumOver(_, _, _)
SumOver(st, S, key) ==
    IF S = {} THEN 0
    ELSE LET n == CHOOSE x \in S : TRUE
         IN  st[n][key] + SumOver(st, S \ {n}, key)
StoreTotal(key) == SumOver(store, NodeSet, key)

(***************************************************************************)
(* RedisManager (src/app/core/redis_manager.py)                            *)
(***************************************************************************)
RECURSIVE FallbackRoute(_, _)
\* the for/else loop of get_connection with n iterations left;
\* [ok |-> FALSE] is "No healthy Redis nodes available"
FallbackRoute(node, n) ==
    IF n = 0 THEN [ok |-> FALSE, node |-> node]
    ELSE LET next == get_node(TheRing, FallbackKey(node)).node
         IN  IF node_health[next] THEN [ok |-> TRUE, node |-> next]
             ELSE FallbackRoute(next, n - 1)

\* variant of get_connection that takes the fallback walk for every key
get_connectionAlwaysFallback(key) ==
    FallbackRoute(get_node(TheRing, key).node, Len(redis_nodes))

get_connection(key) ==
    LET node == get_node(TheRing, key).node
    IN  IF ~node_health[node] THEN FallbackRoute(node, Len(redis_nodes))
        ELSE [ok |-> TRUE, node |-> node]

\* _health_check_loop, one round: ping every node and record the outcome
HealthCheck ==
    /\ node_health' = [n \in NodeSet |-> up[n]]
    /\ UNCHANGED <<ringVars, mgr, up, store, cache, write_buffer, last_write_time,
                   metrics, now, flushVars, last, histVars>>

(***************************************************************************)
(* VisitCounterService (src/app/services/visit_counter.py)                 *)
(***************************************************************************)
\* variants of the restore: the failed count replaces what the buffer holds,
\* or is dropped
RestoreCountOverwrite(buf, page_id, count) == DictSet(buf, page_id, count)
RestoreCountDrop(buf, page_id, count) == buf
\* variant of the restore that adds the failed count twice
RestoreCountTwice(buf, page_id, count) ==
    DictSet(buf, page_id, DictGet(buf, page_id, 0) + 2 * count)

\* restore of a failed count: created at 0 when absent, then added to
RestoreCount(buf, page_id, count) ==
    DictSet(buf, page_id, DictGet(buf, page_id, 0) + count)

RECURSIVE RunFlush(_, _, _, _)
\* _flush_write_buffer from entry i of the snapshot, with RedisManager.increment
\* at the given attempt, run up to its next backoff sleep or to its end.
\* st holds the write buffer and the shard values as the run changes them.
RunFlush(snap, i, attempt, st) ==
    IF i > Len(snap)
    THEN [done |-> TRUE, idx |-> i, attempt |-> 0,
          write_buffer |-> st.write_buffer, store |-> st.store]
    ELSE LET page_id == snap[i][1]
             count == snap[i][2]
             key == CacheKey(page_id)
             conn == get_connection(key)
             restored == [st EXCEPT !.write_buffer = RestoreCount(@, page_id, count)]
         IN  IF count <= 0 THEN RunFlush(snap, i + 1, 0, st)
             ELSE IF ~conn.ok THEN RunFlush(snap, i + 1, 0, restored)
             ELSE IF up[conn.node]
                  THEN RunFlush(snap, i + 1, 0,
                                [st EXCEPT !.store[conn.node][key] = @ + count])
             ELSE IF attempt = REDIS_RETRY_ATTEMPTS - 1
                  THEN RunFlush(snap, i + 1, 0, restored)
             ELSE [done |-> FALSE, idx |-> i, attempt |-> attempt + 1,
                   write_buffer |-> st.write_buffer, store |-> st.store]

NoHist == [snap |-> <<>>, store |-> EmptyStore,
           accepted |-> [p \in Pages |-> 0], incCount |-> 0, done |-> FALSE,
           ended |-> 0]

\* what a run of the flush leaves behind; hist is what held when the flush
\* took its snapshot
FlushOutcome(snap, r, hist) ==
    /\ write_buffer' = r.write_buffer
    /\ store' = r.store
    /\ fl_hist' = [hist EXCEPT !.done = r.done,
                               !.ended = IF r.done THEN now ELSE @]
    /\ IF r.done
       THEN /\ last_write_time' = now
            /\ fl_pc' = "sleep"
            /\ buffer_to_write' = <<>>
            /\ fl_idx' = 0
            /\ fl_attempt' = 0
       ELSE /\ last_write_time' = last_write_time
            /\ fl_pc' = "backoff"
            /\ buffer_to_write' = snap
            /\ fl_idx' = r.idx
            /\ fl_attempt' = r.attempt

\* _batch_write_loop wakes from its interval sleep and calls _flush_write_buffer
FlusherWake ==
    /\ fl_pc = "sleep"
    /\ IF write_buffer = <<>>
       THEN /\ fl_hist' = [fl_hist EXCEPT !.ended = now]
            /\ UNCHANGED <<write_buffer, store, last_write_time, fl_pc,
                           buffer_to_write, fl_idx, fl_attempt>>
       ELSE \E r \in {RunFlush(write_buffer, 1, 0,
                                [write_buffer |-> <<>>, store |-> store])} :
                FlushOutcome(write_buffer, r,
                             [snap |-> write_buffer, store |-> store,
                              accepted |-> accepted, incCount |-> incCount,
                              done |-> FALSE, ended |-> fl_hist.ended])
    /\ UNCHANGED <<ringVars, mgr, node_health, up, cache, metrics, now, last, histVars>>

\* the flush wakes from a retry backoff inside RedisManager.increment
FlusherResume ==
    /\ fl_pc = "backoff"
    /\ \E r \in {RunFlush(buffer_to_write, fl_idx, fl_attempt,
                           [write_buffer |-> write_buffer, store |-> store])} :
           FlushOutcome(buffer_to_write, r, fl_hist)
    /\ UNCHANGED <<ringVars, mgr, node_health, up, cache, metrics, now, last, histVars>>

\* del self.cache[key] / self.cache.pop(key, None)
CacheWithout(c, cache_key) == [k \in (DOMAIN c) \ {cache_key} |-> c[k]]

\* variant of increment_visit that empties the whole cache
increment_visitClearsCache(page_id) ==
    [write_buffer |-> DictSet(write_buffer, page_id,
                              DictGet(write_buffer, page_id, 0) + 1),
     cache |-> <<>>]

\* body of increment_visit
increment_visit(page_id) ==
    [write_buffer |-> DictSet(write_buffer, page_id,
                              DictGet(write_buffer, page_id, 0) + 1),
     cache |-> CacheWithout(cache, CacheKey(page_id))]

Increment(page_id) ==
    /\ incCount < MaxInc
    /\ incCount' = incCount + 1
    /\ LET r == increment_visit(page_id)
       IN  /\ write_buffer' = r.write_buffer
           /\ cache' = r.cache
    /\ accepted' = [accepted EXCEPT ![page_id] = @ + 1]
    /\ last' = [op |-> "increment", key |-> page_id,
                value |-> IF last.op = "get" /\ last.key = page_id
                          THEN last.value ELSE -1,
                source |-> "", ok |-> TRUE]
    /\ UNCHANGED <<ringVars, mgr, node_health, up, store, last_write_time, metrics,
                   now, flushVars, resetState>>

\* the fields CounterMetrics declares
CounterMetricsFields == {"visits", "status", "cache_size", "last_update"}

\* self.metrics.<name> += 1 raises AttributeError: the model has no such field
MetricsBumpRaises(name) == name \notin DOMAIN metrics

\* the test on the cache entry's age in get_visit_count
CacheFresh(cache_key) ==
    /\ cache_key \in DOMAIN cache
    /\ (now - cache[cache_key].timestamp) < CACHE_TTL_SECONDS

\* variant of the except branch that answers 0
DegradedReadZero(page_id) == [value |-> 0, source |-> "write_buffer"]

\* the except branch of get_visit_count
DegradedRead(page_id) ==
    [value |-> DictGet(write_buffer, page_id, 0), source |-> "write_buffer"]

\* get_visit_count.  Both paths start by bumping a counter of self.metrics
\* (cache_hits on a fresh cache entry, cache_misses otherwise); the bump
\* raises, the except branch answers, and the statements after the bump
\* (flush, shard read, buffer re-check, cache insert) are never reached.
Get(page_id) ==
    /\ MetricsBumpRaises(IF CacheFresh(CacheKey(page_id))
                         THEN "cache_hits" ELSE "cache_misses")
    /\ LET r == DegradedRead(page_id)
       IN  last' = [op |-> "get", key |-> page_id, value |-> r.value,
                    source |-> r.source, ok |-> TRUE]
    /\ UNCHANGED <<ringVars, mgr, node_health, up, store, cache, write_buffer,
                   last_write_time, metrics, now, flushVars, accepted,
                   resetState, incCount>>

\* RedisManager.reset: [ok |-> FALSE] is the exception, value is bool(delete)
redis_reset(key) ==
    LET conn == get_connection(key)
    IN  IF conn.ok /\ up[conn.node]
        THEN [ok |-> TRUE, value |-> IF store[conn.node][key] > 0 THEN 1 ELSE 0,
              store |-> [store EXCEPT ![conn.node][key] = 0]]
        ELSE [ok |-> FALSE, value |-> 0, store |-> store]

\* variant of reset_counter that removes the local entries only once the
\* shard delete has succeeded
ResetRollsBack(page_id) ==
    /\ LET r == redis_reset(CacheKey(page_id))
       IN  /\ store' = r.store
           /\ cache' = IF r.ok THEN CacheWithout(cache, CacheKey(page_id))
                       ELSE cache
           /\ write_buffer' = IF r.ok THEN DictPop(write_buffer, page_id)
                              ELSE write_buffer
           /\ last' = [op |-> "reset", key |-> page_id, value |-> r.value,
                       source |-> "", ok |-> r.ok]
           /\ resetState' = [resetState EXCEPT
                                ![page_id] = IF r.ok THEN "ok" ELSE "failed"]
    /\ accepted' = [accepted EXCEPT ![page_id] = 0]
    /\ UNCHANGED <<ringVars, mgr, node_health, up, last_write_time, metrics, now,
                   flushVars, incCount>>

\* reset_counter
Reset(page_id) ==
    /\ cache' = CacheWithout(cache, CacheKey(page_id))
    /\ write_buffer' = DictPop(write_buffer, page_id)
    /\ LET r == redis_reset(CacheKey(page_id))
       IN  /\ store' = r.store
           /\ last' = [op |-> "reset", key |-> page_id, value |-> r.value,
                       source |-> "", ok |-> r.ok]
           /\ resetState' = [resetState EXCEPT
                                ![page_id] = IF r.ok THEN "ok" ELSE "failed"]
    /\ accepted' = [accepted EXCEPT ![page_id] = 0]
    /\ UNCHANGED <<ringVars, mgr, node_health, up, last_write_time, metrics, now,
                   flushVars, incCount>>

\* _cleanup_cache
CleanupCache ==
    /\ cache' = [k \in {x \in DOMAIN cache :
                          ~((now - cache[x].timestamp) >= CACHE_TTL_SECONDS)}
                   |-> cache[k]]
    /\ UNCHANGED <<ringVars, mgr, node_health, up, store, write_buffer,
                   last_write_time, metrics, now, flushVars, last, histVars>>

\* update_metrics
UpdateMetrics ==
    /\ metrics' = [visits |-> metrics.visits, status |-> "active",
                   cache_size |-> Cardinality(DOMAIN cache), last_update |-> now]
    /\ UNCHANGED <<ringVars, mgr, node_health, up, store, cache, write_buffer,
                   last_write_time, now, flushVars, last, histVars>>

(***************************************************************************)
(* Environment                                                             *)
(***************************************************************************)
ShardFail(n) ==
    /\ up[n]
    /\ up' = [up EXCEPT ![n] = FALSE]
    /\ UNCHANGED <<ringVars, mgr, node_health, store, cache, write_buffer,
                   last_write_time, metrics, now, flushVars, last, histVars>>

ShardRecover(n) ==
    /\ ~up[n]
    /\ up' = [up EXCEPT ![n] = TRUE]
    /\ UNCHANGED <<ringVars, mgr, node_health, store, cache, write_buffer,
                   last_write_time, metrics, now, flushVars, last, histVars>>

Tick ==
    /\ now < MaxNow
    /\ now' = now + 1
    /\ UNCHANGED <<ringVars, mgr, node_health, up, store, cache, write_buffer,
                   last_write_time, metrics, flushVars, last, histVars>>

(***************************************************************************)
(* The service after construction.                                         *)
(***************************************************************************)
\* The hash function the service runs with (after construction it never
\* hashes a virtual-node label again).  The virtual nodes of the two
\* shards alternate on the ring (0, 2 -> redis1; 1, 3 -> redis2); page "a"
\* routes to redis2 and page "b" to redis1; "fallback_redis1" routes to redis2
\* and "fallback_redis2" routes to redis2 itself.
ServiceVNodeHashes ==
    ("redis1_0" :> 0) @@ ("redis2_0" :> 1) @@ ("redis1_1" :> 2) @@ ("redis2_1" :> 3)

ServiceOtherHashes ==
    (CacheKey("a") :> 0) @@ (CacheKey("b") :> 1)
        @@ (FallbackKey("redis1") :> 0) @@ (FallbackKey("redis2") :> 0)

ServiceSeed ==
    [vnode |-> ServiceVNodeHashes, step |-> 1, other |-> ServiceOtherHashes]

InitService ==
    /\ node_health = [n \in NodeSet |-> TRUE]
    /\ up = [n \in NodeSet |-> TRUE]
    /\ store = EmptyStore
    /\ cache = <<>>
    /\ write_buffer = <<>>
    /\ now = 0
    /\ last_write_time = 0
    /\ metrics = [visits |-> 0, status |-> "active", cache_size |-> 0,
                  last_update |-> -1]
    /\ fl_pc = "sleep"
    /\ buffer_to_write = <<>>
    /\ fl_idx = 0
    /\ fl_attempt = 0
    /\ fl_hist = NoHist
    /\ last = [op |-> "init", key |-> "", value |-> 0, source |-> "", ok |-> TRUE]
    /\ accepted = [p \in Pages |-> 0]
    /\ incCount = 0
    /\ resetState = [p \in Pages |-> "never"]
    /\ mgr = [pc |-> "idle", op |-> "", key |-> "", amount |-> 0, attempt |-> 0,
              calls |-> 0, fails |-> 0]

InitRing ==
    /\ BuildResolves(EmptyRing, 1)
    /\ LET r == BuildRing(EmptyRing, 1)
       IN  /\ hash_ring = r.hash_ring
           /\ sorted_keys = r.sorted_keys
           /\ nodes = r.nodes

Init ==
    /\ hashSeed = ServiceSeed
    /\ InitRing
    /\ InitService

Next ==
    \/ \E p \in Pages : Increment(p)
    \/ \E p \in Pages : Get(p)
    \/ \E p \in Pages : Reset(p)
    \/ FlusherWake
    \/ FlusherResume
    \/ HealthCheck
    \/ CleanupCache
    \/ UpdateMetrics
    \/ \E n \in NodeSet : ShardFail(n)
    \/ \E n \in NodeSet : ShardRecover(n)

Spec == Init /\ [][Next]_vars

\* a step of the flusher that adds a delta of the page to a shard
FlushApplies(p) ==
    /\ FlusherWake \/ FlusherResume
    /\ SumOver(store', NodeSet, CacheKey(p)) > StoreTotal(CacheKey(p))

\* _batch_write_loop is a task of its own: it wakes from every sleep, and a
\* shard write that can succeed again and again does succeed at some point
\* the steps that touch the write buffer, the flusher or the shards
LiveNext ==
    \/ \E p \in Pages : Increment(p)
    \/ FlusherWake
    \/ FlusherResume
    \/ HealthCheck
    \/ \E n \in NodeSet : ShardFail(n)
    \/ \E n \in NodeSet : ShardRecover(n)

LiveSpec ==
    /\ Init /\ [][LiveNext]_vars
    /\ WF_vars(FlusherWake)
    /\ WF_vars(FlusherResume)
    /\ \A p \in Pages : SF_vars(FlushApplies(p))

\* the cache insert of get_visit_count: self.cache[cache_key] = {'value': count,
\* 'timestamp': datetime.now()}.  No statement before it looks at the size of
\* the cache or removes an entry.
CacheInsert(page_id, count) ==
    /\ cache' = [k \in DOMAIN cache \cup {CacheKey(page_id)} |->
                    IF k = CacheKey(page_id)
                    THEN [value |-> count, timestamp |-> now]
                    ELSE cache[k]]
    /\ UNCHANGED <<ringVars, mgr, node_health, up, store, write_buffer,
                   last_write_time, metrics, now, flushVars, last, histVars>>

\* the cache invalidation of increment_visit and reset_counter
CacheInvalidate(page_id) ==
    /\ CacheKey(page_id) \in DOMAIN cache
    /\ cache' = CacheWithout(cache, CacheKey(page_id))
    /\ UNCHANGED <<ringVars, mgr, node_health, up, store, write_buffer,
                   last_write_time, metrics, now, flushVars, last, histVars>>

\* The statements of the service that write the cache, run on their own
\* from the empty cache of a new service, with the clock advancing.
CacheNext ==
    \/ \E p \in Pages : \E count \in 0 .. MaxInc : CacheInsert(p, count)
    \/ \E p \in Pages : CacheInvalidate(p)
    \/ CleanupCache
    \/ Tick

SpecCache == Init /\ [][CacheNext]_vars

\* get_visit_count and the sweep run against a cache that holds entries of
\* every age: the cache insert, the reads, the sweep and the clock.
TTLNext ==
    \/ \E p \in Pages : \E count \in 0 .. MaxInc : CacheInsert(p, count)
    \/ \E p \in Pages : Get(p)
    \/ CleanupCache
    \/ Tick

SpecTTL == Init /\ [][TTLNext]_vars

\* The write path with the clock advancing: increments, the batch loop's
\* flush with its retries, the shards failing and recovering, the probe.
FlushTimeNext ==
    \/ \E p \in Pages : Increment(p)
    \/ FlusherWake
    \/ FlusherResume
    \/ HealthCheck
    \/ Tick
    \/ \E n \in NodeSet : ShardFail(n)
    \/ \E n \in NodeSet : ShardRecover(n)

SpecFlushTime == Init /\ [][FlushTimeNext]_vars

\* reset_counter against a filled cache, buffer and shard store: the
\* increments and the batch loop's flush fill the buffer and the shards,
\* the cache insert fills the cache, the shards fail and recover.
ResetNext ==
    \/ \E p \in Pages : Increment(p)
    \/ \E p \in Pages : CacheInsert(p, accepted[p])
    \/ \E p \in Pages : Reset(p)
    \/ FlusherWake
    \/ FlusherResume
    \/ HealthCheck
    \/ \E n \in NodeSet : ShardFail(n)
    \/ \E n \in NodeSet : ShardRecover(n)

SpecReset == Init /\ [][ResetNext]_vars

\* The statements of get_visit_count after the metrics bump (145-157), run
\* on their own in the case where nothing in them sleeps or raises: the
\* flush runs to its end without a retry backoff, and RedisManager.get finds
\* a healthy shard that answers at the first attempt.  The count is the
\* shard's value plus what the buffer holds after the flush; it is put in
\* the cache and returned tagged "redis_<node>".
ReadThrough(page_id) ==
    LET cache_key == CacheKey(page_id)
        conn == get_connection(cache_key)
        f == IF write_buffer = <<>>
             THEN [done |-> TRUE, write_buffer |-> write_buffer, store |-> store]
             ELSE RunFlush(write_buffer, 1, 0,
                           [write_buffer |-> <<>>, store |-> store])
        count == f.store[conn.node][cache_key] + DictGet(f.write_buffer, page_id, 0)
    IN  /\ f.done
        /\ conn.ok /\ up[conn.node]
        /\ write_buffer' = f.write_buffer
        /\ store' = f.store
        /\ last_write_time' = IF write_buffer = <<>> THEN last_write_time ELSE now
        /\ fl_hist' = [fl_hist EXCEPT !.ended = now]
        /\ cache' = [k \in DOMAIN cache \cup {cache_key} |->
                        IF k = cache_key
                        THEN [value |-> count, timestamp |-> now]
                        ELSE cache[k]]
        /\ last' = [op |-> "get", key |-> page_id, value |-> count,
                    source |-> "redis_" \o conn.node, ok |-> TRUE]
        /\ UNCHANGED <<ringVars, mgr, node_health, up, metrics, now, fl_pc,
                       buffer_to_write, fl_idx, fl_attempt, histVars>>

\* The read path past the metrics bump together with the write path.
CoherenceNext ==
    \/ \E p \in Pages : Increment(p)
    \/ \E p \in Pages : ReadThrough(p)
    \/ FlusherWake
    \/ FlusherResume
    \/ HealthCheck
    \/ CleanupCache
    \/ Tick
    \/ \E n \in NodeSet : ShardFail(n)
    \/ \E n \in NodeSet : ShardRecover(n)

SpecCoherence == Init /\ [][CoherenceNext]_vars

(***************************************************************************)
(* RedisManager on its own: its operations called directly, one            *)
(* increment or get in flight at a time, with the health probe and the     *)
(* shards failing and recovering in between.                               *)
(***************************************************************************)
\* variant of an attempt that sleeps and retries after the last failure too
MgrAttemptNoLimit(op, key, amount, attempt) ==
    LET conn == get_connection(key)
    IN  IF ~conn.ok
        THEN [done |-> TRUE, ok |-> FALSE, error |-> "NoHealthyShards",
              called |-> FALSE, value |-> 0, node |-> "", store |-> store]
        ELSE IF up[conn.node]
        THEN [done |-> TRUE, ok |-> TRUE, error |-> "", called |-> TRUE,
              value |-> store[conn.node][key]
                          + (IF op = "increment" THEN amount ELSE 0),
              node |-> conn.node,
              store |-> IF op = "increment"
                        THEN [store EXCEPT ![conn.node][key] = @ + amount]
                        ELSE store]
        ELSE [done |-> FALSE, ok |-> FALSE, error |-> "", called |-> TRUE,
              value |-> 0, node |-> "", store |-> store]

\* one pass of the for loop of RedisManager.increment / RedisManager.get:
\* get_connection, the shard call, and the except clause.  error is
\* "NoHealthyShards" for the Exception of get_connection (not a RedisError,
\* so it is not caught) and "ShardUnavailable" for the Exception raised on
\* the last attempt; done = FALSE is the backoff sleep.
MgrAttempt(op, key, amount, attempt) ==
    LET conn == get_connection(key)
    IN  IF ~conn.ok
        THEN [done |-> TRUE, ok |-> FALSE, error |-> "NoHealthyShards",
              called |-> FALSE, value |-> 0, node |-> "", store |-> store]
        ELSE IF up[conn.node]
        THEN [done |-> TRUE, ok |-> TRUE, error |-> "", called |-> TRUE,
              value |-> store[conn.node][key]
                          + (IF op = "increment" THEN amount ELSE 0),
              node |-> conn.node,
              store |-> IF op = "increment"
                        THEN [store EXCEPT ![conn.node][key] = @ + amount]
                        ELSE store]
        ELSE IF attempt = REDIS_RETRY_ATTEMPTS - 1
        THEN [done |-> TRUE, ok |-> FALSE, error |-> "ShardUnavailable",
              called |-> TRUE, value |-> 0, node |-> "", store |-> store]
        ELSE [done |-> FALSE, ok |-> FALSE, error |-> "", called |-> TRUE,
              value |-> 0, node |-> "", store |-> store]

\* variant of an attempt: a shard call that raised marks its node unhealthy
MgrOutcomeMarksDown(op, key, amount, attempt, calls, fails, r) ==
    /\ store' = r.store
    /\ node_health' = IF r.called /\ ~r.ok
                      THEN [node_health EXCEPT ![get_connection(key).node] = FALSE]
                      ELSE node_health
    /\ mgr' = [pc |-> IF r.done THEN "idle" ELSE "backoff",
               op |-> op, key |-> key, amount |-> amount,
               attempt |-> IF r.done THEN attempt ELSE attempt + 1,
               calls |-> calls + (IF r.called THEN 1 ELSE 0),
               fails |-> fails + (IF r.called /\ ~r.ok THEN 1 ELSE 0)]
    /\ last' = IF r.done
               THEN [op |-> op, key |-> key, value |-> r.value,
                     source |-> IF r.ok THEN r.node ELSE r.error, ok |-> r.ok]
               ELSE last

\* what an attempt leaves behind: the health map is read, never written
MgrOutcome(op, key, amount, attempt, calls, fails, r) ==
    /\ store' = r.store
    /\ UNCHANGED node_health
    /\ mgr' = [pc |-> IF r.done THEN "idle" ELSE "backoff",
               op |-> op, key |-> key, amount |-> amount,
               attempt |-> IF r.done THEN attempt ELSE attempt + 1,
               calls |-> calls + (IF r.called THEN 1 ELSE 0),
               fails |-> fails + (IF r.called /\ ~r.ok THEN 1 ELSE 0)]
    /\ last' = IF r.done
               THEN [op |-> op, key |-> key, value |-> r.value,
                     source |-> IF r.ok THEN r.node ELSE r.error, ok |-> r.ok]
               ELSE last

\* RedisManager.increment(key, amount) / RedisManager.get(key) is called
MgrCall(op, key, amount) ==
    /\ mgr.pc = "idle"
    /\ op = "increment" => StoreTotal(key) + amount <= MaxInc
    /\ \E r \in {MgrAttempt(op, key, amount, 0)} :
           MgrOutcome(op, key, amount, 0, 0, 0, r)
    /\ UNCHANGED <<ringVars, up, cache, write_buffer,
                   last_write_time, metrics, now, flushVars, histVars>>

\* the call wakes from its backoff sleep and runs its next attempt
MgrResume ==
    /\ mgr.pc = "backoff"
    /\ \E r \in {MgrAttempt(mgr.op, mgr.key, mgr.amount, mgr.attempt)} :
           MgrOutcome(mgr.op, mgr.key, mgr.amount, mgr.attempt,
                      mgr.calls, mgr.fails, r)
    /\ UNCHANGED <<ringVars, up, cache, write_buffer,
                   last_write_time, metrics, now, flushVars, histVars>>

\* RedisManager.mget(keys): every key is routed first (get_connection may
\* raise), then one mget per node; a node that fails yields 0 for its keys
redis_mget(keys) ==
    IF \E k \in keys : ~get_connection(k).ok
    THEN [ok |-> FALSE, value |-> <<>>]
    ELSE [ok |-> TRUE,
          value |-> [k \in keys |->
                        LET node == get_connection(k).node
                        IN  <<IF up[node] THEN store[node][k] ELSE 0, node>>]]

MgrMget(keys) ==
    /\ LET r == redis_mget(keys)
       IN  last' = [op |-> "mget", key |-> "", value |-> r.value,
                    source |-> IF r.ok THEN "" ELSE "NoHealthyShards",
                    ok |-> r.ok]
    /\ UNCHANGED <<ringVars, mgr, node_health, up, store, cache, write_buffer,
                   last_write_time, metrics, now, flushVars, histVars>>

\* RedisManager.reset(key) is called
MgrReset(key) ==
    /\ LET r == redis_reset(key)
       IN  /\ store' = r.store
           /\ last' = [op |-> "reset", key |-> key, value |-> r.value,
                       source |-> "", ok |-> r.ok]
    /\ UNCHANGED <<ringVars, mgr, node_health, up, cache, write_buffer,
                   last_write_time, metrics, now, flushVars, histVars>>

\* RedisManager.get_status()
MgrStatus ==
    /\ last' = [op |-> "status", key |-> "",
                value |-> [nodes |-> Len(redis_nodes),
                           healthy_nodes |->
                               Cardinality({n \in NodeSet : node_health[n]}),
                           node_status |-> node_health],
                source |-> "", ok |-> TRUE]
    /\ UNCHANGED <<ringVars, mgr, node_health, up, store, cache, write_buffer,
                   last_write_time, metrics, now, flushVars, histVars>>

ManagerNext ==
    \/ \E key \in StorageKeys : \E amount \in 1 .. MaxInc :
           MgrCall("increment", key, amount)
    \/ \E key \in StorageKeys : MgrCall("get", key, 0)
    \/ MgrResume
    \/ \E keys \in (SUBSET StorageKeys) \ {{}} : MgrMget(keys)
    \/ \E key \in StorageKeys : MgrReset(key)
    \/ MgrStatus
    \/ HealthCheck
    \/ \E n \in NodeSet : ShardFail(n)
    \/ \E n \in NodeSet : ShardRecover(n)

SpecManager == Init /\ [][ManagerNext]_vars

(***************************************************************************)
(* ConsistentHash on its own: a ring built from the node list under any    *)
(* hash function of the bounded family, then add_node, remove_node and     *)
(* get_node calls.  last records the latest call: for add and remove,      *)
(* value is the routing of the storage keys before the call.               *)
(***************************************************************************)
\* the hash functions the ring is run with: every assignment of hashes to the
\* virtual-node labels (collisions included) and to one storage key
RingSeeds ==
    {[vnode |-> v, step |-> st,
      other |-> (CacheKey("a") :> ka) @@ (CacheKey("b") :> 1)
                  @@ (FallbackKey("redis1") :> 0) @@ (FallbackKey("redis2") :> 0)] :
        v \in [VLabels -> 0 .. (HashSpace - 1)], st \in 1 .. 2,
        ka \in 0 .. (HashSpace - 1)}

RoutesOf(r) == [k \in StorageKeys |-> get_node(r, k)]

SetRing(r) ==
    /\ hash_ring' = r.hash_ring
    /\ sorted_keys' = r.sorted_keys
    /\ nodes' = r.nodes

RingAdd(node) ==
    /\ node \in nodes \/ AddResolves(hash_ring, node, 0)
    /\ SetRing(add_node(TheRing, node))
    /\ last' = [op |-> "add", key |-> node, value |-> RoutesOf(TheRing),
                source |-> "", ok |-> TRUE]
    /\ UNCHANGED <<hashSeed, mgr, node_health, up, store, cache, write_buffer,
                   last_write_time, metrics, now, flushVars, histVars>>

\* remove_node: ValueError for a node that is not in self.nodes
RingRemove(node) ==
    /\ IF node \notin nodes
       THEN /\ UNCHANGED <<hash_ring, sorted_keys, nodes>>
            /\ last' = [op |-> "remove", key |-> node, value |-> RoutesOf(TheRing),
                        source |-> "ValueError", ok |-> FALSE]
       ELSE /\ SetRing(remove_node(TheRing, node))
            /\ last' = [op |-> "remove", key |-> node, value |-> RoutesOf(TheRing),
                        source |-> "", ok |-> TRUE]
    /\ UNCHANGED <<hashSeed, mgr, node_health, up, store, cache, write_buffer,
                   last_write_time, metrics, now, flushVars, histVars>>

\* get_node: Exception("Hash ring is empty") when self.hash_ring is empty
RingRoute(key) ==
    /\ LET r == get_node(TheRing, key)
       IN  last' = [op |-> "route", key |-> key, value |-> r.node,
                    source |-> IF r.ok THEN "" ELSE "Exception", ok |-> r.ok]
    /\ UNCHANGED <<ringVars, mgr, node_health, up, store, cache, write_buffer,
                   last_write_time, metrics, now, flushVars, histVars>>

RingInit ==
    /\ hashSeed \in RingSeeds
    /\ InitRing
    /\ InitService

RingNext ==
    \/ \E n \in NodeSet : RingAdd(n)
    \/ \E n \in NodeSet : RingRemove(n)
    \/ \E k \in StorageKeys : RingRoute(k)

SpecRing == RingInit /\ [][RingNext]_vars

\* increment_visit against a cache that holds entries, in every state of the
\* health map and of the shards
IncrementNext ==
    \/ \E p \in Pages : Increment(p)
    \/ \E p \in Pages : \E count \in 0 .. MaxInc : CacheInsert(p, count)
    \/ Tick
    \/ HealthCheck
    \/ \E n \in NodeSet : ShardFail(n)
    \/ \E n \in NodeSet : ShardRecover(n)

SpecIncrement == Init /\ [][IncrementNext]_vars

(***************************************************************************)
(* Definitions shared by the properties.                                   *)
(***************************************************************************)
NeverReset(p) == resetState[p] = "never"
AllHealthy == \A n \in NodeSet : node_health[n]
AllUp == \A n \in NodeSet : up[n]
Buffered(p) == DictGet(write_buffer, p, 0)

RECURSIVE SnapshotFrom(_, _, _)
\* what a suspended flush still holds for the page: its snapshot entries from i on
SnapshotFrom(snap, i, p) ==
    IF i > Len(snap) THEN 0
    ELSE (IF snap[i][1] = p THEN snap[i][2] ELSE 0) + SnapshotFrom(snap, i + 1, p)
InFlight(p) == IF fl_pc = "backoff" THEN SnapshotFrom(buffer_to_write, fl_idx, p) ELSE 0

\* the shard the ring assigns to the page's storage key
Route(p) == get_node(TheRing, CacheKey(p)).node

\* the ring after the step
TheRingAfter == [hash_ring |-> hash_ring', sorted_keys |-> sorted_keys', nodes |-> nodes']

\* no two virtual-node labels of the configured nodes have the same hash
NoCollision ==
    \A l1 \in VLabels : \A l2 \in VLabels \ {l1} :
        hashSeed.vnode[l1] # hashSeed.vnode[l2]

\* the latest flush that took a snapshot has ended and no flush is in progress
FlushEnded == fl_pc = "sleep" /\ fl_hist.done
\* increment_visit calls of the page accepted since that snapshot was taken
SinceSnapshot(p) == accepted[p] - fl_hist.accepted[p]
\* the page's shard value when that snapshot was taken
StoreAtSnapshot(p) == SumOver(fl_hist.store, NodeSet, CacheKey(p))
\* the flush wrote the snapshot entry to the shard / failed and restored it
EntryWritten(p, d) ==
    /\ StoreTotal(CacheKey(p)) = StoreAtSnapshot(p) + d
    /\ Buffered(p) = SinceSnapshot(p)
EntryRestored(p, d) ==
    /\ StoreTotal(CacheKey(p)) = StoreAtSnapshot(p)
    /\ Buffered(p) = d + SinceSnapshot(p)

\* a step of a direct RedisManager.increment / get call (MgrCall, MgrResume):
\* among the steps of ManagerNext only these change mgr or record the
\* outcome of an increment or get
MgrCallStep ==
    \/ mgr' # mgr
    \/ last' # last /\ last'.op \in {"increment", "get"}

\* CounterMetrics never gains the counters get_visit_count bumps
MetricsFieldDrift ==
    /\ DOMAIN metrics = CounterMetricsFields
    /\ cache = <<>>

(***************************************************************************)
(* C1.  For a page that was never reset, a get_visit_count returns a value *)
(* that counts every increment_visit that returned before it.              *)
(***************************************************************************)
C1_GetCountsAccepted ==
    \A p \in Pages :
        (last.op = "get" /\ last.key = p /\ NeverReset(p))
            => last.value >= accepted[p]

(***************************************************************************)
(* C2.  Conservation as claimed: for a page that was never reset, shard    *)
(* value plus buffered delta is at least the number of accepted            *)
(* increments, in every reachable state.                                   *)
(***************************************************************************)
C2_ConservationAsClaimed ==
    \A p \in Pages :
        NeverReset(p) => StoreTotal(CacheKey(p)) + Buffered(p) >= accepted[p]

(***************************************************************************)
(* C2, amended.  For a page that was never reset, shard value plus         *)
(* buffered delta plus the delta a suspended flush holds in its snapshot   *)
(* is at least the number of accepted increments.                          *)
(***************************************************************************)
C2_Conservation ==
    \A p \in Pages :
        NeverReset(p) =>
            StoreTotal(CacheKey(p)) + Buffered(p) + InFlight(p) >= accepted[p]

\* a flush is suspended in a retry backoff with the page's delta in its
\* snapshot, and the page was incremented again since
C2_Witness ==
    \E p \in Pages :
        /\ NeverReset(p)
        /\ fl_pc = "backoff"
        /\ InFlight(p) = 1
        /\ Buffered(p) = 1
        /\ accepted[p] = 2

(***************************************************************************)
(* C3.  Liveness: if the shards are reachable and marked healthy again and *)
(* again, every accepted increment of a page that is never reset is        *)
(* eventually added to the shard store; a failed flush does not stop the   *)
(* flusher.                                                                *)
(***************************************************************************)
C3_EventuallyFlushed ==
    ([]<>(AllUp /\ AllHealthy))
        => []<>(\A p \in Pages :
                   NeverReset(p) => StoreTotal(CacheKey(p)) >= accepted[p])

\* a flush wrote the delta of the page incremented last and failed for the
\* page incremented before it: that delta is back in the buffer and the
\* flusher sleeps until its next interval
C3_Witness ==
    \E p \in Pages : \E q \in Pages \ {p} :
        /\ last.op = "increment" /\ last.key = p
        /\ accepted[p] = 1 /\ accepted[q] = 1
        /\ NeverReset(p) /\ NeverReset(q)
        /\ StoreTotal(CacheKey(p)) = 1
        /\ StoreTotal(CacheKey(q)) = 0
        /\ Buffered(q) = 1
        /\ fl_pc = "sleep"

(***************************************************************************)
(* C4.  Read dominance: for a page that was never reset, a                 *)
(* get_visit_count returns at least what the get_visit_count of the same   *)
(* page before it returned.                                                *)
(***************************************************************************)
C4_ReadDominance ==
    [][(last.op = "get" /\ last'.op = "get" /\ last'.key = last.key
            /\ NeverReset(last.key) /\ accepted[last.key] > 0)
          => last'.value >= last.value]_vars

(***************************************************************************)
(* C5.  After reset_counter of a page returned without an error, a         *)
(* get_visit_count of the page with no increment_visit of it in between    *)
(* returns 0.                                                              *)
(***************************************************************************)
C5_ResetThenGetZero ==
    \A p \in Pages :
        (last.op = "get" /\ last.key = p /\ resetState[p] = "ok" /\ accepted[p] = 0)
            => last.value = 0

(***************************************************************************)
(* C6.  Fallback correctness: with exactly one shard marked unhealthy and  *)
(* every other shard healthy and reachable, get_connection finds a healthy *)
(* shard for every storage key.                                            *)
(***************************************************************************)
C6_FallbackFindsHealthy ==
    (/\ Cardinality({n \in NodeSet : ~node_health[n]}) = 1
     /\ \A n \in NodeSet : node_health[n] => up[n])
        => \A p \in Pages :
              LET conn == get_connection(CacheKey(p))
              IN  conn.ok /\ node_health[conn.node]

(***************************************************************************)
(* C7.  Degraded read: get_visit_count never raises; an answer tagged      *)
(* "write_buffer" is the page's buffered delta (0 if none); with every     *)
(* shard marked unhealthy, n increments accepted and none of them flushed, *)
(* it is (n, "write_buffer") and the buffer still holds the n increments.  *)
(***************************************************************************)
C7_DegradedRead ==
    [][\A p \in Pages :
          Get(p) =>
              /\ last'.ok
              /\ last'.source = "write_buffer" => last'.value = Buffered(p)
              /\ (/\ \A n \in NodeSet : ~node_health[n]
                  /\ NeverReset(p)
                  /\ StoreTotal(CacheKey(p)) = 0
                  /\ InFlight(p) = 0)
                 => /\ last'.value = accepted[p]
                    /\ last'.source = "write_buffer"
                    /\ DictGet(write_buffer', p, 0) = accepted[p]]_vars

\* a get answered (2, "write_buffer") while every shard is marked unhealthy
\* and the two increments are still buffered
C7_Witness ==
    /\ last.op = "get"
    /\ last.ok
    /\ last.value = 2
    /\ last.source = "write_buffer"
    /\ \A n \in NodeSet : ~node_health[n]
    /\ Buffered(last.key) = 2
    /\ StoreTotal(CacheKey(last.key)) = 0

C9_RoundTrip ==
    [][\A p \in Pages :
          (/\ Get(p)
           /\ AllHealthy /\ AllUp
           /\ resetState[p] \in {"never", "ok"}
           /\ fl_pc = "sleep" /\ write_buffer = <<>>)
          => /\ last'.value = accepted[p]
             /\ last'.source = "redis_" \o Route(p)]_vars

(***************************************************************************)
(* C10.  Invalidate on write: when increment_visit returns, the cache      *)
(* holds no entry for the page's storage key; with healthy shards, a get   *)
(* that returned v, then an increment, then a get returns v + 1 tagged     *)
(* "redis_<shard>".                                                        *)
(***************************************************************************)
C10_InvalidateOnWrite ==
    [][\A p \in Pages :
          /\ Increment(p) => CacheKey(p) \notin DOMAIN cache'
          /\ (/\ Get(p)
              /\ last.op = "increment" /\ last.key = p /\ last.value >= 0
              /\ AllHealthy /\ AllUp)
             => /\ last'.value = last.value + 1
                /\ last'.source = "redis_" \o Route(p)]_vars

(***************************************************************************)
(* C11.  Cache hit: with healthy shards, a get_visit_count of a page right *)
(* after a get_visit_count of the same page (no increment or reset in      *)
(* between, within the TTL) returns the same value tagged "in_memory", and *)
(* leaves the buffer, the cache and the shard store unchanged.             *)
(***************************************************************************)
C11_CacheHit ==
    [][\A p \in Pages :
          (/\ Get(p)
           /\ last.op = "get" /\ last.key = p
           /\ AllHealthy /\ AllUp)
          => /\ last'.value = last.value
             /\ last'.source = "in_memory"
             /\ UNCHANGED <<write_buffer, cache, store>>]_vars

(***************************************************************************)
(* C12.  increment_visit is local: it adds exactly 1 to the page's buffer  *)
(* entry (created if absent), removes only the cache entry of the page's   *)
(* storage key, and leaves the shard store, the health map, the ring and   *)
(* every other buffer and cache entry unchanged, in every state of the     *)
(* health map and of the shards.                                           *)
(***************************************************************************)
C12_IncrementLocal ==
    [][\A p \in Pages :
          Increment(p) =>
              /\ DictGet(write_buffer', p, 0) = DictGet(write_buffer, p, 0) + 1
              /\ \A q \in Pages \ {p} :
                     /\ DictHas(write_buffer', q) = DictHas(write_buffer, q)
                     /\ DictGet(write_buffer', q, 0) = DictGet(write_buffer, q, 0)
              /\ DOMAIN cache' = (DOMAIN cache) \ {CacheKey(p)}
              /\ \A k \in DOMAIN cache' : cache'[k] = cache[k]
              /\ UNCHANGED <<store, node_health, up, ringVars>>]_vars

\* an increment was accepted with every shard down and marked unhealthy; it
\* removed the page's cache entry and left the other page's entry in place
C12_Witness ==
    \E p \in Pages : \E q \in Pages \ {p} :
        /\ last.op = "increment" /\ last.key = p
        /\ \A n \in NodeSet : ~node_health[n] /\ ~up[n]
        /\ Buffered(p) = 2
        /\ CacheKey(p) \notin DOMAIN cache
        /\ CacheKey(q) \in DOMAIN cache

(***************************************************************************)
(* C13.  Ring stability: removing a shard other than the one a key routes  *)
(* to leaves the key's route unchanged; removing the shard it routes to    *)
(* moves the key to one of the remaining shards; adding the removed shard  *)
(* again restores the routing from before the removal.                     *)
(***************************************************************************)
C13_RingStability ==
    [][\A s \in NodeSet :
          /\ (RingRemove(s) /\ s \in nodes) =>
                \A k \in StorageKeys :
                    LET before == get_node(TheRing, k)
                        after == get_node(TheRingAfter, k)
                    IN  IF before.node # s
                        THEN after.ok /\ after.node = before.node
                        ELSE nodes \ {s} # {} =>
                                 after.ok /\ after.node \in nodes \ {s}
          /\ (RingAdd(s) /\ last.op = "remove" /\ last.key = s /\ last.ok) =>
                RoutesOf(TheRingAfter) = last.value]_vars

(***************************************************************************)
(* C14.  Retry policy: RedisManager.increment and RedisManager.get make at *)
(* most REDIS_RETRY_ATTEMPTS shard calls; they sleep and retry only after  *)
(* a shard call that failed; they return the result of the first call that *)
(* succeeds; they fail with the exhaustion error exactly when              *)
(* REDIS_RETRY_ATTEMPTS calls in a row failed; a pending call always has   *)
(* attempts left, so the operation ends; an attempt that fails leaves the  *)
(* shard store unchanged.                                                  *)
(***************************************************************************)
C14_RetryPolicy ==
    [][MgrCallStep => LET m == mgr'
              res == last'
          IN  /\ m.calls <= REDIS_RETRY_ATTEMPTS
              /\ m.pc = "backoff" =>
                     /\ m.calls < REDIS_RETRY_ATTEMPTS
                     /\ m.attempt = m.calls
                     /\ m.fails = m.calls
                     /\ store' = store
              /\ m.pc = "idle" =>
                     /\ res.op = m.op /\ res.key = m.key
                     /\ res.ok =>
                            /\ m.calls >= 1 /\ m.fails = m.calls - 1
                            /\ res.value = store'[res.source][m.key]
                            /\ store' = IF m.op = "increment"
                                        THEN [store EXCEPT
                                                 ![res.source][m.key] = @ + m.amount]
                                        ELSE store
                     /\ ~res.ok =>
                            /\ res.source \in {"ShardUnavailable", "NoHealthyShards"}
                            /\ store' = store
                     /\ (~res.ok /\ res.source = "ShardUnavailable")
                            <=> m.fails = REDIS_RETRY_ATTEMPTS]_vars

\* an increment failed at its first shard call, slept, and succeeded at its
\* second call
C14_Witness ==
    /\ mgr.pc = "idle" /\ mgr.op = "increment"
    /\ mgr.calls = 2 /\ mgr.fails = 1
    /\ last.op = "increment" /\ last.ok
    /\ StoreTotal(mgr.key) = mgr.amount

(***************************************************************************)
(* C15.  Ring errors: remove_node of a node that is not in the ring raises *)
(* and leaves hash_ring, sorted_keys and nodes unchanged; get_node on a    *)
(* ring with no nodes raises; add_node of a node already present changes   *)
(* nothing.                                                                *)
(***************************************************************************)
C15_RingErrors ==
    [][/\ \A s \in NodeSet :
             /\ (RingRemove(s) /\ s \notin nodes) =>
                    /\ ~last'.ok /\ last'.source = "ValueError"
                    /\ UNCHANGED <<hash_ring, sorted_keys, nodes>>
             /\ (RingAdd(s) /\ s \in nodes) =>
                    /\ last'.ok
                    /\ UNCHANGED <<hash_ring, sorted_keys, nodes>>
       /\ \A k \in StorageKeys :
             (RingRoute(k) /\ nodes = {}) => ~last'.ok]_vars

(***************************************************************************)
(* C16.  Flush protocol: the flush takes its snapshot and empties the      *)
(* buffer in one step; while it is suspended, the entries it has not       *)
(* reached are in no shard and the buffer holds only what was accepted     *)
(* since; once it has ended, for every snapshot entry (K, d) of a page     *)
(* that was never reset either the shard value grew by exactly d and the   *)
(* buffer holds what was accepted since the snapshot, or the shard value   *)
(* is unchanged and the buffer holds d plus what was accepted since.       *)
(***************************************************************************)
C16_FlushProtocol ==
    /\ fl_pc = "backoff" =>
           /\ buffer_to_write = fl_hist.snap
           /\ \A i \in DOMAIN buffer_to_write :
                  LET p == buffer_to_write[i][1]
                      d == buffer_to_write[i][2]
                  IN  NeverReset(p) =>
                          IF i >= fl_idx
                          THEN /\ StoreTotal(CacheKey(p)) = StoreAtSnapshot(p)
                               /\ Buffered(p) = SinceSnapshot(p)
                          ELSE EntryWritten(p, d) \/ EntryRestored(p, d)
    /\ FlushEnded =>
           \A i \in DOMAIN fl_hist.snap :
               LET p == fl_hist.snap[i][1]
                   d == fl_hist.snap[i][2]
               IN  NeverReset(p) => EntryWritten(p, d) \/ EntryRestored(p, d)

\* a flush has ended whose write of a page failed after the page was
\* incremented again: the buffer holds the restored delta plus the new one
C16_Witness ==
    /\ FlushEnded
    /\ \E i \in DOMAIN fl_hist.snap :
           LET p == fl_hist.snap[i][1]
               d == fl_hist.snap[i][2]
           IN  /\ NeverReset(p)
               /\ SinceSnapshot(p) = 1
               /\ EntryRestored(p, d)
               /\ Buffered(p) = 2

(***************************************************************************)
(* C17.  Quiescence as claimed: when a flush has ended, none is in         *)
(* progress and no increment was accepted since that flush took its        *)
(* snapshot, the buffer is empty and every accepted increment of a page    *)
(* that was never reset is in the shard store.                             *)
(***************************************************************************)
C17_QuiescenceAsClaimed ==
    (FlushEnded /\ incCount = fl_hist.incCount) =>
        /\ write_buffer = <<>>
        /\ \A p \in Pages :
               NeverReset(p) => StoreTotal(CacheKey(p)) >= accepted[p]

(***************************************************************************)
(* C17, amended.  When a flush has ended with every one of its shard       *)
(* writes done, none is in progress and no increment was accepted since    *)
(* that flush took its snapshot, the buffer is empty and every accepted    *)
(* increment of a page that was never reset is in the shard store.         *)
(***************************************************************************)
C17_Quiescence ==
    (/\ FlushEnded /\ incCount = fl_hist.incCount
     /\ \A i \in DOMAIN fl_hist.snap :
            StoreTotal(CacheKey(fl_hist.snap[i][1]))
                = StoreAtSnapshot(fl_hist.snap[i][1]) + fl_hist.snap[i][2])
    => /\ write_buffer = <<>>
       /\ \A p \in Pages :
              NeverReset(p) => StoreTotal(CacheKey(p)) >= accepted[p]

\* a flush wrote the deltas of both pages and nothing was accepted since
C17_Witness ==
    /\ FlushEnded /\ incCount = fl_hist.incCount
    /\ Len(fl_hist.snap) = 2
    /\ \A p \in Pages :
           /\ NeverReset(p)
           /\ accepted[p] = 1
           /\ StoreTotal(CacheKey(p)) = 1
    /\ write_buffer = <<>>

(***************************************************************************)
(* C20.  Health map frame: a step that changes the health map is a round   *)
(* of the health probe, which sets every node's bit to the outcome of its  *)
(* ping and changes nothing else; RedisManager increment, get, mget,       *)
(* reset and get_status leave the health map as it was, also when the      *)
(* shard call fails or the retries are exhausted.                          *)
(***************************************************************************)
C20_HealthFrame == [][node_health' # node_health => HealthCheck]_vars

\* a call gave up after REDIS_RETRY_ATTEMPTS failed shard calls on a node
\* that is down, and every node is still marked healthy
C20_Witness ==
    /\ mgr.pc = "idle"
    /\ mgr.fails = REDIS_RETRY_ATTEMPTS
    /\ last.source = "ShardUnavailable"
    /\ ~AllUp
    /\ AllHealthy

(***************************************************************************)
(* C18.  Ring size invariant: after any add_node and remove_node calls,    *)
(* collisions included, the ring holds exactly VIRTUAL_NODES entries per   *)
(* node of the node set, every entry maps to a node of the set, every node *)
(* of the set owns exactly VIRTUAL_NODES entries, and sorted_keys is the   *)
(* sorted list of the entries' hashes.                                     *)
(***************************************************************************)
C18_RingSize ==
    /\ Cardinality(DOMAIN hash_ring) = VIRTUAL_NODES * Cardinality(nodes)
    /\ \A h \in DOMAIN hash_ring : hash_ring[h] \in nodes
    /\ \A n \in nodes :
           Cardinality({h \in DOMAIN hash_ring : hash_ring[h] = n}) = VIRTUAL_NODES
    /\ sorted_keys = SortedSeq(DOMAIN hash_ring)

(***************************************************************************)
(* C19.  Ring lookup: on a non-empty ring get_node returns the node of the *)
(* entry with the smallest stored hash strictly greater than the key's     *)
(* hash, and the node of the entry with the smallest stored hash if none   *)
(* is greater; a key whose hash equals a stored hash goes to the next      *)
(* entry.                                                                  *)
(***************************************************************************)
C19_RingLookup ==
    \A k \in StorageKeys :
        DOMAIN hash_ring # {} =>
            LET greater == {h \in DOMAIN hash_ring : h > _get_hash(k)}
                from == IF greater # {} THEN greater ELSE DOMAIN hash_ring
                entry == CHOOSE h \in from : \A g \in from : h <= g
            IN  get_node(TheRing, k) = [ok |-> TRUE, node |-> hash_ring[entry]]

\* get_node answered for a key whose hash equals a stored hash, with the node
\* of the next greater entry, which is another node than the equal entry's
C19_Witness ==
    /\ last.op = "route" /\ last.ok
    /\ last.value = get_node(TheRing, last.key).node
    /\ _get_hash(last.key) \in DOMAIN hash_ring
    /\ \E h \in DOMAIN hash_ring : h > _get_hash(last.key)
    /\ hash_ring[_get_hash(last.key)] # last.value

(***************************************************************************)
(* C21.  Probe-only fallback: no step of the shard manager changes the     *)
(* ring (entries, sorted hashes, node set), and whenever the ring's node   *)
(* for a key is marked healthy, a call for that key that reaches a shard   *)
(* reaches exactly that node, whatever fallback routing the key had        *)
(* before.                                                                 *)
(***************************************************************************)
C21_ProbeOnlyFallback ==
    [][/\ UNCHANGED ringVars
       /\ (/\ last' # last
           /\ last'.op \in {"increment", "get"}
           /\ last'.ok
           /\ node_health[get_node(TheRing, last'.key).node])
          => last'.source = get_node(TheRing, last'.key).node
       /\ (last' # last /\ last'.op = "mget" /\ last'.ok)
          => \A k \in DOMAIN last'.value :
                 node_health[get_node(TheRing, k).node]
                     => last'.value[k][2] = get_node(TheRing, k).node]_vars

\* a key was written through its fallback node while its own node was
\* marked unhealthy, and a later get of the key was served by its own node
C21_Witness ==
    /\ last.op = "get" /\ last.ok
    /\ last.source = get_node(TheRing, last.key).node
    /\ \E n \in NodeSet \ {last.source} : store[n][last.key] > 0

C23_FlushRecordsTime == last_write_time = fl_hist.ended

(***************************************************************************)
(* C24.  No double counting: for a page that was never reset, the shard    *)
(* values of its key summed over all shards, plus its buffered delta, plus *)
(* the delta a suspended flush still holds for it, equal the number of     *)
(* accepted increments, in every reachable state.                          *)
(***************************************************************************)
C24_NoDoubleCounting ==
    \A p \in Pages :
        NeverReset(p) =>
            StoreTotal(CacheKey(p)) + Buffered(p) + InFlight(p) = accepted[p]

\* one increment of a page is in a shard, and a later one came back to the
\* buffer from a flush whose shard write failed
C24_Witness ==
    /\ FlushEnded
    /\ \E i \in DOMAIN fl_hist.snap :
           LET p == fl_hist.snap[i][1]
           IN  /\ NeverReset(p)
               /\ accepted[p] = 2
               /\ StoreAtSnapshot(p) = 1
               /\ StoreTotal(CacheKey(p)) = 1
               /\ Buffered(p) = 1

(***************************************************************************)
(* C25.  reset_counter is not rolled back: the call fails exactly when no  *)
(* healthy shard is found or the shard call raises; when it fails, the     *)
(* page's cache entry and buffer entry are gone all the same and every     *)
(* shard value is as it was; whether it fails or not, the buffer and cache *)
(* entries of the other pages are as they were.                            *)
(***************************************************************************)
C25_ResetNotRolledBack ==
    [][\A p \in Pages :
          Reset(p) =>
              /\ last'.op = "reset" /\ last'.key = p
              /\ last'.ok = /\ get_connection(CacheKey(p)).ok
                            /\ up[get_connection(CacheKey(p)).node]
              /\ CacheKey(p) \notin DOMAIN cache'
              /\ ~DictHas(write_buffer', p)
              /\ ~last'.ok => store' = store
              /\ DOMAIN cache' = (DOMAIN cache) \ {CacheKey(p)}
              /\ \A k \in DOMAIN cache' : cache'[k] = cache[k]
              /\ \A q \in Pages \ {p} :
                     /\ DictHas(write_buffer', q) = DictHas(write_buffer, q)
                     /\ DictGet(write_buffer', q, 0) = DictGet(write_buffer, q, 0)]_vars

\* a reset of a page has failed with the page's value still in a shard and
\* its cache and buffer entries gone, while the other page keeps its entries
C25_Witness ==
    \E p \in Pages :
        /\ last.op = "reset" /\ last.key = p /\ ~last.ok
        /\ resetState[p] = "failed"
        /\ StoreTotal(CacheKey(p)) > 0
        /\ CacheKey(p) \notin DOMAIN cache
        /\ ~DictHas(write_buffer, p)
        /\ \A q \in Pages \ {p} :
               CacheKey(q) \in DOMAIN cache /\ DictHas(write_buffer, q)

====
